---- MODULE Spec2Model ----
(***************************************************************************)
(* binary-layout: the define_layout! macro (src/macro_define_layout.rs).   *)
(*                                                                         *)
(* The macro turns an ordered list of (name : type) pairs and a byte order *)
(* into one Field type per field, whose OFFSET is accumulated from the     *)
(* sizes of the fields before it, and a struct View<S> over a storage S    *)
(* with three accessors per field (name, name_mut, into_name).             *)
(*                                                                         *)
(* Field, FieldView, FieldSize and the integer codecs live in other files  *)
(* of the crate; they are modelled from the crate's specification and are  *)
(* marked so in MODEL_MAP.json.                                            *)
(***************************************************************************)
EXTENDS Integers, Sequences, FiniteSets, TLC

VARIABLES
    decl,       \* the declaration handed to define_layout!
    layout,     \* the module define_layout! produced (or its rejection)
    heap,       \* the bytes of the caller's buffer
    owner,      \* where the Vec is: with the "caller", "moved" into a view, "dropped"
    style,      \* the API the caller uses on the buffer: "field" or "view"
    views,      \* the View<S> objects, by slot
    fvs,        \* the FieldView objects, by slot
    extracted,  \* the slice FieldView::extract returned, while it is alive
    lastw,      \* per field: what was last written to it, if anything
    last,       \* the last operation and what it returned
    panicked,   \* a bounds error unwound the caller
    codec       \* the codec harness: one value through encode and decode

vars == <<decl, layout, heap, owner, style, views, fvs, extracted, lastw, last, panicked, codec>>

-----------------------------------------------------------------------------
(* Bounds of the model.                                                    *)

\* fields per layout drawn exhaustively by the definition stage
MaxFields == 3
\* largest N of a [u8; N] drawn by the definition stage
MaxFixed == 2
\* bytes of the buffer past the layout's fixed-size fields: 0..MaxTail
MaxTail == 1
\* View slots
MaxViews == 2
\* FieldView slots
MaxFvs == 2

-----------------------------------------------------------------------------
(* Field types.                                                            *)

Byte == 0..255

IntT(w, s) == [k |-> "int", n |-> w, s |-> s]
FixedT(n) == [k |-> "fixed", n |-> n, s |-> FALSE]
OpenT == [k |-> "open", n |-> 0, s |-> FALSE]

i8 == IntT(1, TRUE)
u8 == IntT(1, FALSE)
i16 == IntT(2, TRUE)
u16 == IntT(2, FALSE)
i32 == IntT(4, TRUE)
u32 == IntT(4, FALSE)
i64 == IntT(8, TRUE)
u64 == IntT(8, FALSE)
i128 == IntT(16, TRUE)
u128 == IntT(16, FALSE)

IntTypes == {i8, u8, i16, u16, i32, u32, i64, u64, i128, u128}

Endianness == {"BigEndian", "LittleEndian"}

\* <type as FieldSize>::SIZE exists for the integers and for [u8; N] only.
HasFieldSize(type) == type.k \in {"int", "fixed"}

\* The accumulator expression of a field whose type has no FieldSize does not
\* compile; NoSize stands for such an expression.
NoSize == 0 - 1

FieldSize(type) == IF HasFieldSize(type) THEN type.n ELSE NoSize

-----------------------------------------------------------------------------
(* define_layout!: the fields.                                             *)

\* _impl_fields with the accumulator left as it came in: a dropped "+ SIZE".
RECURSIVE impl_fields_noacc(_, _, _)
impl_fields_noacc(endianness, offset_accumulator, fields) ==
    IF fields = <<>> THEN <<>>
    ELSE LET f == Head(fields)
         IN  <<[name |-> f.name, type |-> f.type, endianness |-> endianness,
                OFFSET |-> offset_accumulator]>>
             \o impl_fields_noacc(endianness, offset_accumulator, Tail(fields))

\* _impl_fields with crate::LittleEndian where $endianness is meant.
RECURSIVE impl_fields_little(_, _, _)
impl_fields_little(endianness, offset_accumulator, fields) ==
    IF fields = <<>> THEN <<>>
    ELSE LET f == Head(fields)
             next == IF offset_accumulator = NoSize \/ ~HasFieldSize(f.type)
                     THEN NoSize
                     ELSE offset_accumulator + FieldSize(f.type)
         IN  <<[name |-> f.name, type |-> f.type, endianness |-> "LittleEndian",
                OFFSET |-> offset_accumulator]>>
             \o impl_fields_little(endianness, next, Tail(fields))

\* _impl_fields: one `pub type name = Field<type, endianness, accumulator>` per
\* field, the accumulator growing by the field's SIZE for the fields after it.
\* The expression handed on after the last field is never used.
RECURSIVE impl_fields(_, _, _)
impl_fields(endianness, offset_accumulator, fields) ==
    IF fields = <<>> THEN <<>>
    ELSE LET f == Head(fields)
             next == IF offset_accumulator = NoSize \/ ~HasFieldSize(f.type)
                     THEN NoSize
                     ELSE offset_accumulator + FieldSize(f.type)
         IN  <<[name |-> f.name, type |-> f.type, endianness |-> endianness,
                OFFSET |-> offset_accumulator]>>
             \o impl_fields(endianness, next, Tail(fields))

\* What the compiler rejects in the expansion: two items of one name in the
\* module, or a Field whose OFFSET expression does not compile.
Compiles(items) ==
    /\ \A i, j \in 1..Len(items) : items[i].name = items[j].name => i = j
    /\ \A i \in 1..Len(items) : items[i].OFFSET # NoSize

\* The expansion accepted whatever the items are.
define_layout_unchecked(endianness, fields) ==
    [ok |-> TRUE, endianness |-> endianness,
     fields |-> impl_fields(endianness, 0, fields)]

\* define_layout!(name, endianness, {fields}): the module, or no module at all.
define_layout(endianness, fields) ==
    LET items == impl_fields(endianness, 0, fields)
    IN  IF Compiles(items)
        THEN [ok |-> TRUE, endianness |-> endianness, fields |-> items]
        ELSE [ok |-> FALSE, endianness |-> endianness, fields |-> <<>>]

\* The bytes the fixed-size fields of a layout take.
FixedSize(items) ==
    IF items = <<>> THEN 0
    ELSE LET l == items[Len(items)]
         IN  IF l.type.k = "open" THEN l.OFFSET ELSE l.OFFSET + l.type.n

Undefined == [ok |-> FALSE, endianness |-> "none", fields |-> <<>>]

-----------------------------------------------------------------------------
(* The integer codecs (crate code outside this file; from the              *)
(* specification, 4.1: two's complement at the declared width, the byte    *)
(* order deciding which end holds the most significant byte).              *)

Reverse(s) == [i \in 1..Len(s) |-> s[Len(s) + 1 - i]]

\* An integer value.  TLC's integers are 32 bits wide: a decoded value
\* beyond them is kept as its big-endian bytes (wide), which identify it.
IntVal(v) == [wide |-> FALSE, v |-> v, b |-> <<>>]
WideVal(bytes) == [wide |-> TRUE, v |-> 0, b |-> bytes]
NoVal == [wide |-> TRUE, v |-> 0, b |-> <<>>]

RECURSIVE le_digits(_, _)
le_digits(v, w) ==
    IF w = 0 THEN <<>> ELSE <<v % 256>> \o le_digits(v \div 256, w - 1)

\* v.to_le_bytes() at width w: least significant byte first.
to_le_bytes(v, w) == le_digits(v, w)

\* v.to_be_bytes() at width w: most significant byte first.
to_be_bytes(v, w) == Reverse(le_digits(v, w))

encode(v, type, endianness) ==
    IF endianness = "BigEndian" THEN to_be_bytes(v, type.n)
                                ELSE to_le_bytes(v, type.n)

\* The value of big-endian bytes, from the most significant byte down; NoVal
\* once a step would leave TLC's integers (acc * 256 + 255 must fit).
RECURSIVE horner(_, _)
horner(acc, rest) ==
    IF rest = <<>> THEN IntVal(acc)
    ELSE IF acc < -8388608 \/ acc > 8388607 THEN NoVal
    ELSE horner(acc * 256 + Head(rest), Tail(rest))

from_be_bytes(bytes, signed) ==
    LET top == bytes[1]
        r == horner(IF signed /\ top >= 128 THEN top - 256 ELSE top, Tail(bytes))
    IN  IF r.wide THEN WideVal(bytes) ELSE r

from_le_bytes(bytes, signed) ==
    LET r == from_be_bytes(Reverse(bytes), signed)
    IN  IF r.wide THEN WideVal(Reverse(bytes)) ELSE r

\* decode never sign-extending: the unsigned reading of the bytes.
decode_unsigned(bytes, type, endianness) ==
    IF endianness = "BigEndian" THEN from_be_bytes(bytes, FALSE)
                                ELSE from_le_bytes(bytes, FALSE)

decode(bytes, type, endianness) ==
    IF endianness = "BigEndian" THEN from_be_bytes(bytes, type.s)
                                ELSE from_le_bytes(bytes, type.s)

-----------------------------------------------------------------------------
(* Storage handles and slices.  A handle is what a Vec<u8>, a &[u8] or a   *)
(* &mut [u8] is at run time: where the bytes start in the caller's buffer  *)
(* and how many there are.                                                 *)

Handle(kind, ptr, len) == [kind |-> kind, ptr |-> ptr, len |-> len]
NoHandle == Handle("none", 0, 0)

\* as_ref handing out the bytes as as_mut does: writable.
as_ref_writable(storage) == Handle("mut", storage.ptr, storage.len)

\* AsRef<[u8]>::as_ref and AsMut<[u8]>::as_mut: the same bytes, borrowed.
as_ref(storage) == Handle("ref", storage.ptr, storage.len)
as_mut(storage) == Handle("mut", storage.ptr, storage.len)

\* S: AsMut<[u8]> holds for Vec<u8> and &mut [u8], not for &[u8].
ImplAsMut(storage) == storage.kind \in {"vec", "mut"}

\* A store that runs one byte past the bytes it was given, zeroing it.
Store_spilling(h, slice, at, bytes) ==
    [i \in 1..Len(h) |->
        IF i > slice.ptr + at /\ i <= slice.ptr + at + Len(bytes)
        THEN bytes[i - slice.ptr - at]
        ELSE IF bytes # <<>> /\ i = slice.ptr + at + Len(bytes) + 1 THEN 0
        ELSE h[i]]

Deref(h, slice) == SubSeq(h, slice.ptr + 1, slice.ptr + slice.len)

\* h with bytes stored at slice[at ..]
Store(h, slice, at, bytes) ==
    [i \in 1..Len(h) |->
        IF i > slice.ptr + at /\ i <= slice.ptr + at + Len(bytes)
        THEN bytes[i - slice.ptr - at] ELSE h[i]]

-----------------------------------------------------------------------------
(* Field: the stateless accessors (crate code outside this file; from the  *)
(* specification, 4.3 and 7).  A bounds error is a panic of the slice      *)
(* index, raised before any byte is read or written.                       *)

IsInt(field) == field.type.k = "int"
IsOpen(field) == field.type.k = "open"

\* The field's byte range within a storage of len bytes: [OFFSET, End).
FieldEnd(field, len) == IF IsOpen(field) THEN len ELSE field.OFFSET + field.type.n

\* storage[OFFSET..OFFSET+SIZE], or storage[OFFSET..], is in bounds.
InBounds(field, len) ==
    IF IsOpen(field) THEN field.OFFSET <= len
                     ELSE field.OFFSET + field.type.n <= len

Ok(val, bytes) == [panic |-> FALSE, val |-> val, bytes |-> bytes]
BoundsError == [panic |-> TRUE, val |-> NoVal, bytes |-> <<>>]

\* Field::data(storage): the field's bytes.
Field_data(field, storage) ==
    IF ~InBounds(field, Len(storage)) THEN BoundsError
    ELSE Ok(NoVal, SubSeq(storage, field.OFFSET + 1, FieldEnd(field, Len(storage))))

\* Field::read(storage): the field's bytes decoded in the layout's byte order.
Field_read(field, storage) ==
    IF ~InBounds(field, Len(storage)) THEN BoundsError
    ELSE Ok(decode(SubSeq(storage, field.OFFSET + 1, field.OFFSET + field.type.n),
                   field.type, field.endianness), <<>>)

\* Field::write(storage, v): the bytes the field's range is to hold.
Field_write(field, storage, v) ==
    IF ~InBounds(field, Len(storage)) THEN BoundsError
    ELSE Ok(NoVal, encode(v, field.type, field.endianness))

\* A copy that fits the source to the field: cut when longer, the field's
\* remaining bytes kept when shorter.
Field_copy_from_slice_fitting(field, storage, src) ==
    IF ~InBounds(field, Len(storage)) THEN BoundsError
    ELSE LET n == FieldEnd(field, Len(storage)) - field.OFFSET
         IN  Ok(NoVal, [j \in 1..n |-> IF j <= Len(src) THEN src[j]
                                       ELSE storage[field.OFFSET + j]])

\* Field::data_mut(storage).copy_from_slice(src): copy_from_slice panics unless
\* the two slices have the same length.
Field_copy_from_slice(field, storage, src) ==
    IF ~InBounds(field, Len(storage)) THEN BoundsError
    ELSE IF Len(src) # FieldEnd(field, Len(storage)) - field.OFFSET THEN BoundsError
    ELSE Ok(NoVal, src)

-----------------------------------------------------------------------------
(* struct View<S> and its accessors.                                       *)

FieldView_new(storage, i) == [storage |-> storage, field |-> i]

View_new(storage) == [storage |-> storage]

\* into_storage handing back a storage one byte short.
View_into_storage_short(self) ==
    Handle(self.storage.kind, self.storage.ptr,
           IF self.storage.len > 0 THEN self.storage.len - 1 ELSE 0)

View_into_storage(self) == self.storage

\* An accessor bound to the first field whatever its name.
View_field_first(self, i) == FieldView_new(as_ref(self.storage), 1)

\* fn name(&self) -> FieldView<&[u8], name>
View_field(self, i) == FieldView_new(as_ref(self.storage), i)

\* A mutable accessor that hands the field view the storage from its second
\* byte on.
View_field_mut_tail(self, i) ==
    FieldView_new(Handle("mut", self.storage.ptr + (IF self.storage.len > 0 THEN 1 ELSE 0),
                         self.storage.len - (IF self.storage.len > 0 THEN 1 ELSE 0)), i)

View_field_mut_first(self, i) == FieldView_new(as_mut(self.storage), 1)

\* fn name_mut(&mut self) -> FieldView<&mut [u8], name>
View_field_mut(self, i) == FieldView_new(as_mut(self.storage), i)

View_into_field_first(self, i) == FieldView_new(self.storage, 1)

\* fn into_name(self) -> FieldView<S, name>
View_into_field(self, i) == FieldView_new(self.storage, i)

-----------------------------------------------------------------------------
(* The caller: the test module's buffers, values and layouts.              *)

\* data_region(size, seed): size bytes drawn from a generator seeded with seed.
data_region(size, rng_seed) ==
    [i \in 1..size |-> (rng_seed * 101 + i * 37 + 11) % 256]

\* The seed of the tests' buffers: data_region(1024, 5).
StorageSeed == 5

\* The lengths of the caller's buffer: none, one byte short of each fixed-size
\* field's end, each such end, and the whole layout with up to MaxTail bytes
\* more (the tests' 1024 bytes are the whole layout and a tail).
StorageLens(items) ==
    LET ends == {items[i].OFFSET + items[i].type.n :
                    i \in {j \in 1..Len(items) : items[j].type.k # "open"}}
    IN  {0} \cup ends \cup {e - 1 : e \in ends}
            \cup (FixedSize(items)..(FixedSize(items) + MaxTail))

\* The source slice of a copy_from_slice: [10, 20, 30, ...]
SrcOf(n) == [i \in 1..n |-> (10 * i) % 256]

Decl(endianness, fields) == [endianness |-> endianness, fields |-> fields]
F(name, type) == [name |-> name, type |-> type]

\* The layouts the tests define, withslice without its first two fields (the
\* definition stage has it whole).
TestLayouts ==
    { Decl("LittleEndian", <<>>),
      Decl("LittleEndian", <<F("field", OpenT)>>),
      Decl("LittleEndian", <<F("first", i8), F("second", i64), F("third", u16)>>),
      Decl("LittleEndian", <<F("third", FixedT(5)), F("fourth", u16), F("fifth", OpenT)>>),
      Decl("LittleEndian", <<F("field", u8), F("tail", OpenT)>>),
      Decl("LittleEndian", <<F("field1", u16), F("field2", i64)>>),
      Decl("BigEndian", <<F("field1", u16), F("field2", i64)>>) }

\* The values the caller writes to a field of an integer type: the least and
\* the greatest the type holds (as far as TLC's integers reach) and one
\* of the tests' values.
TypeMin(type) ==
    IF ~type.s THEN 0
    ELSE IF type.n = 1 THEN -128
    ELSE IF type.n = 2 THEN -32768
    ELSE -2147483647 - 1

TypeMax(type) ==
    IF type.n = 1 THEN (IF type.s THEN 127 ELSE 255)
    ELSE IF type.n = 2 THEN (IF type.s THEN 32767 ELSE 65535)
    ELSE 2147483647

WriteVals(type) ==
    IF type.s THEN {TypeMin(type), 50}
    ELSE IF type.n = 1 THEN {TypeMax(type), 60}
    ELSE {TypeMax(type), 1000}

-----------------------------------------------------------------------------
(* The state.                                                              *)

ViewIds == 1..MaxViews
FvIds == 1..MaxFvs

\* given: the storage View::new was handed, kept for the record.
NoView == [st |-> "none", storage |-> NoHandle, given |-> NoHandle]
ConsumedView(given) == [st |-> "consumed", storage |-> NoHandle, given |-> given]
\* name: the field whose accessor made the field view; field: the Field type
\* the accessor bound it to; parent: the view it borrows, 0 if it owns its storage.
NoFv == [st |-> "none", storage |-> NoHandle, field |-> 0, name |-> 0, parent |-> 0]
ConsumedFv ==
    [st |-> "consumed", storage |-> NoHandle, field |-> 0, name |-> 0, parent |-> 0]

NoWrite == [set |-> FALSE, val |-> NoVal, bytes |-> <<>>]
Wrote(val, bytes) == [set |-> TRUE, val |-> val, bytes |-> bytes]

Last(op, id, field, r, ret) ==
    [op |-> op, id |-> id, field |-> field, panic |-> r.panic, val |-> r.val,
     bytes |-> r.bytes, ret |-> ret]
\* The slice extract returned and the field it was asked for.
Extract(slice, name) ==
    [kind |-> slice.kind, ptr |-> slice.ptr, len |-> slice.len, name |-> name]
NoExtract == Extract(NoHandle, 0)

NoLast == Last("none", 0, 0, Ok(NoVal, <<>>), NoHandle)

NoCodec == [pc |-> "idle", type |-> u8, endianness |-> "none", v |-> 0,
            bytes |-> <<>>, out |-> NoVal]

Fields == layout.fields
NFields == Len(layout.fields)

\* The state once the layout is defined and the caller has filled a buffer.
Init ==
    /\ decl \in TestLayouts
    /\ layout = define_layout(decl.endianness, decl.fields)
    /\ style \in {"field", "view"}
    /\ \E len \in StorageLens(layout.fields) : heap = data_region(len, StorageSeed)
    /\ owner = "caller"
    /\ views = [v \in ViewIds |-> NoView]
    /\ fvs = [k \in FvIds |-> NoFv]
    /\ extracted = NoExtract
    /\ lastw = [i \in 1..Len(layout.fields) |-> NoWrite]
    /\ last = NoLast
    /\ panicked = FALSE
    /\ codec = NoCodec

-----------------------------------------------------------------------------
(* Ownership and borrowing: what the compiler lets the caller write.       *)

LiveView(v) == views[v].st = "live"
LiveFv(k) == fvs[k].st = "live"

\* A loan of the caller's buffer of one of these kinds is alive.
Loans(kinds) ==
    \/ \E v \in ViewIds : LiveView(v) /\ views[v].storage.kind \in kinds
    \/ \E k \in FvIds : LiveFv(k) /\ fvs[k].parent = 0 /\ fvs[k].storage.kind \in kinds
    \/ extracted.kind \in kinds

\* The lowest free slot.
FreeView(v) == views[v].st = "none" /\ \A u \in ViewIds : u < v => views[u].st # "none"
FreeFv(k) == fvs[k].st = "none" /\ \A j \in FvIds : j < k => fvs[j].st # "none"

\* A &self receiver where &mut self is meant: every borrow of the view is a
\* shared one, and shared borrows never exclude each other.
CanBorrowMut_shared(v) == TRUE

\* &self: the view may be borrowed again while only shared borrows of it live.
CanBorrowShared(v) ==
    ~\E k \in FvIds : LiveFv(k) /\ fvs[k].parent = v /\ fvs[k].storage.kind = "mut"

\* &mut self: no other borrow of the view lives.
CanBorrowMut(v) == ~\E k \in FvIds : LiveFv(k) /\ fvs[k].parent = v

\* self: the view is moved, which no live borrow of it allows.
CanMove(v) == ~\E k \in FvIds : LiveFv(k) /\ fvs[k].parent = v

-----------------------------------------------------------------------------
(* The caller's steps.                                                     *)

\* The caller uses one of the two APIs on its buffer, as each test does: the
\* Field types on the buffer itself (style "field") or views over it ("view").
Running == layout.ok /\ ~panicked

\* View::new(storage), storage being the Vec itself, &storage or &mut storage.
ViewNew(v, kind) ==
    /\ Running /\ style = "view" /\ owner = "caller" /\ FreeView(v)
    /\ IF kind = "ref" THEN ~Loans({"mut"}) ELSE ~Loans({"ref", "mut"})
    /\ views' = [views EXCEPT ![v] =
                    [st |-> "live",
                     storage |-> View_new(Handle(kind, 0, Len(heap))).storage,
                     given |-> Handle(kind, 0, Len(heap))]]
    /\ owner' = IF kind = "vec" THEN "moved" ELSE owner
    /\ last' = NoLast
    /\ UNCHANGED <<decl, layout, heap, style, fvs, extracted, lastw, panicked, codec>>

\* into_storage with a &self receiver: the storage is handed back and the view
\* stays in use.
IntoStorage_borrowing(v) ==
    /\ Running /\ LiveView(v) /\ CanMove(v)
    /\ last' = Last("into_storage", v, 0, Ok(NoVal, <<>>), View_into_storage(views[v]))
    /\ UNCHANGED <<decl, layout, heap, owner, style, views, fvs, extracted, lastw,
                   panicked, codec>>

\* view.into_storage()
IntoStorage(v) ==
    /\ Running /\ LiveView(v) /\ CanMove(v)
    /\ views' = [views EXCEPT ![v] = ConsumedView(views[v].given)]
    /\ owner' = IF views[v].storage.kind = "vec" THEN "caller" ELSE owner
    /\ last' = Last("into_storage", v, 0, Ok(NoVal, <<>>), View_into_storage(views[v]))
    /\ UNCHANGED <<decl, layout, heap, style, fvs, extracted, lastw, panicked, codec>>

\* The view goes out of scope.
DropView(v) ==
    /\ Running /\ LiveView(v) /\ CanMove(v)
    /\ views' = [views EXCEPT ![v] = ConsumedView(views[v].given)]
    /\ owner' = IF views[v].storage.kind = "vec" THEN "dropped" ELSE owner
    /\ last' = NoLast
    /\ UNCHANGED <<decl, layout, heap, style, fvs, extracted, lastw, panicked, codec>>

NewFv(k, fv, name, parent) ==
    fvs' = [fvs EXCEPT ![k] = [st |-> "live", storage |-> fv.storage,
                               field |-> fv.field, name |-> name, parent |-> parent]]

\* An accessor that looks at the storage's length itself and panics when the
\* field does not fit.
FieldRef_checked(v, i, k) ==
    /\ Running /\ LiveView(v) /\ CanBorrowShared(v) /\ FreeFv(k)
    /\ IF InBounds(Fields[i], views[v].storage.len)
       THEN NewFv(k, View_field(views[v], i), i, v) /\ panicked' = FALSE
       ELSE fvs' = fvs /\ panicked' = TRUE
    /\ last' = NoLast
    /\ UNCHANGED <<decl, layout, heap, owner, style, views, extracted, lastw, codec>>

\* view.name()
FieldRef(v, i, k) ==
    /\ Running /\ LiveView(v) /\ CanBorrowShared(v) /\ FreeFv(k)
    /\ NewFv(k, View_field(views[v], i), i, v)
    /\ last' = NoLast
    /\ UNCHANGED <<decl, layout, heap, owner, style, views, extracted, lastw, panicked, codec>>

\* view.name_mut(), there for the storages that are AsMut<[u8]>
FieldMut(v, i, k) ==
    /\ Running /\ LiveView(v) /\ ImplAsMut(views[v].storage)
    /\ CanBorrowMut(v) /\ FreeFv(k)
    /\ NewFv(k, View_field_mut(views[v], i), i, v)
    /\ last' = NoLast
    /\ UNCHANGED <<decl, layout, heap, owner, style, views, extracted, lastw, panicked, codec>>

\* view.into_name(): the view is gone, the field view holds its storage.
IntoField(v, i, k) ==
    /\ Running /\ LiveView(v) /\ CanMove(v) /\ FreeFv(k)
    /\ NewFv(k, View_into_field(views[v], i), i, 0)
    /\ views' = [views EXCEPT ![v] = ConsumedView(views[v].given)]
    /\ last' = NoLast
    /\ UNCHANGED <<decl, layout, heap, owner, style, extracted, lastw, panicked, codec>>

FvField(k) == Fields[fvs[k].field]
FvBytes(k) == Deref(heap, fvs[k].storage)

\* field_view.read()
FvRead(k) ==
    /\ Running /\ LiveFv(k) /\ IsInt(FvField(k))
    /\ LET r == Field_read(FvField(k), FvBytes(k))
       IN  /\ last' = Last("read", k, fvs[k].name, r, NoHandle)
           /\ panicked' = r.panic
    /\ UNCHANGED <<decl, layout, heap, owner, style, views, fvs, extracted, lastw, codec>>

\* field_view.data()
FvData(k) ==
    /\ Running /\ LiveFv(k) /\ ~IsInt(FvField(k))
    /\ LET r == Field_data(FvField(k), FvBytes(k))
       IN  /\ last' = Last("data", k, fvs[k].name, r, NoHandle)
           /\ panicked' = r.panic
    /\ UNCHANGED <<decl, layout, heap, owner, style, views, fvs, extracted, lastw, codec>>

\* field_view.write(v)
FvWrite(k, v) ==
    /\ Running /\ LiveFv(k) /\ IsInt(FvField(k)) /\ ImplAsMut(fvs[k].storage)
    /\ LET f == FvField(k)
           r == Field_write(f, FvBytes(k), v)
       IN  /\ heap' = IF r.panic THEN heap
                      ELSE Store(heap, fvs[k].storage, f.OFFSET, r.bytes)
           /\ lastw' = IF r.panic THEN lastw
                       ELSE [lastw EXCEPT ![fvs[k].name] = Wrote(IntVal(v), <<>>)]
           /\ last' = Last("write", k, fvs[k].name,
                           [panic |-> r.panic, val |-> IntVal(v), bytes |-> <<>>],
                           NoHandle)
           /\ panicked' = r.panic
    /\ UNCHANGED <<decl, layout, owner, style, views, fvs, extracted, codec>>

\* field_view.data_mut().copy_from_slice(src)
FvCopyFromSlice(k, src) ==
    /\ Running /\ LiveFv(k) /\ ~IsInt(FvField(k)) /\ ImplAsMut(fvs[k].storage)
    /\ LET f == FvField(k)
           r == Field_copy_from_slice(f, FvBytes(k), src)
       IN  /\ heap' = IF r.panic THEN heap
                      ELSE Store(heap, fvs[k].storage, f.OFFSET, r.bytes)
           /\ lastw' = IF r.panic THEN lastw
                       ELSE [lastw EXCEPT ![fvs[k].name] = Wrote(NoVal, src)]
           /\ last' = Last("copy_from_slice", k, fvs[k].name,
                           [panic |-> r.panic, val |-> NoVal, bytes |-> src], NoHandle)
           /\ panicked' = r.panic
    /\ UNCHANGED <<decl, layout, owner, style, views, fvs, extracted, codec>>

\* field_view.extract() of a field view that holds a borrowed storage: the
\* field's bytes as a slice of the storage's own lifetime.
FvExtract(k) ==
    /\ Running /\ LiveFv(k) /\ fvs[k].parent = 0
    /\ fvs[k].storage.kind \in {"ref", "mut"} /\ extracted = NoExtract
    /\ LET f == FvField(k)
           r == Field_data(f, FvBytes(k))
           slice == Handle(fvs[k].storage.kind, fvs[k].storage.ptr + f.OFFSET,
                           Len(r.bytes))
       IN  /\ extracted' = IF r.panic THEN extracted ELSE Extract(slice, fvs[k].name)
           /\ last' = Last("extract", k, fvs[k].name, r,
                           IF r.panic THEN NoHandle ELSE slice)
           /\ panicked' = r.panic
    /\ fvs' = [fvs EXCEPT ![k] = ConsumedFv]
    /\ UNCHANGED <<decl, layout, heap, owner, style, views, lastw, codec>>

\* The field view goes out of scope.
FvDrop(k) ==
    /\ Running /\ LiveFv(k)
    /\ fvs' = [fvs EXCEPT ![k] = ConsumedFv]
    /\ owner' = IF fvs[k].parent = 0 /\ fvs[k].storage.kind = "vec"
                THEN "dropped" ELSE owner
    /\ last' = NoLast
    /\ UNCHANGED <<decl, layout, heap, style, views, extracted, lastw, panicked, codec>>

\* The extracted slice goes out of scope.
DropExtracted ==
    /\ Running /\ extracted # NoExtract
    /\ extracted' = NoExtract
    /\ last' = NoLast
    /\ UNCHANGED <<decl, layout, heap, owner, style, views, fvs, lastw, panicked, codec>>

\* name::read(&storage) and name::data(&storage) on the caller's own buffer
ApiRead(i) ==
    /\ Running /\ style = "field" /\ owner = "caller" /\ ~Loans({"mut"}) /\ IsInt(Fields[i])
    /\ LET r == Field_read(Fields[i], heap)
       IN  /\ last' = Last("api_read", 0, i, r, NoHandle)
           /\ panicked' = r.panic
    /\ UNCHANGED <<decl, layout, heap, owner, style, views, fvs, extracted, lastw, codec>>

ApiData(i) ==
    /\ Running /\ style = "field" /\ owner = "caller" /\ ~Loans({"mut"}) /\ ~IsInt(Fields[i])
    /\ LET r == Field_data(Fields[i], heap)
       IN  /\ last' = Last("api_data", 0, i, r, NoHandle)
           /\ panicked' = r.panic
    /\ UNCHANGED <<decl, layout, heap, owner, style, views, fvs, extracted, lastw, codec>>

\* name::write(&mut storage, v)
ApiWrite(i, v) ==
    /\ Running /\ style = "field" /\ owner = "caller" /\ ~Loans({"ref", "mut"}) /\ IsInt(Fields[i])
    /\ LET r == Field_write(Fields[i], heap, v)
       IN  /\ heap' = IF r.panic THEN heap
                      ELSE Store(heap, Handle("mut", 0, Len(heap)), Fields[i].OFFSET, r.bytes)
           /\ lastw' = IF r.panic THEN lastw
                       ELSE [lastw EXCEPT ![i] = Wrote(IntVal(v), <<>>)]
           /\ last' = Last("api_write", 0, i,
                           [panic |-> r.panic, val |-> IntVal(v), bytes |-> <<>>],
                           NoHandle)
           /\ panicked' = r.panic
    /\ UNCHANGED <<decl, layout, owner, style, views, fvs, extracted, codec>>

\* name::data_mut(&mut storage).copy_from_slice(src)
ApiCopyFromSlice(i, src) ==
    /\ Running /\ style = "field" /\ owner = "caller" /\ ~Loans({"ref", "mut"}) /\ ~IsInt(Fields[i])
    /\ LET r == Field_copy_from_slice(Fields[i], heap, src)
       IN  /\ heap' = IF r.panic THEN heap
                      ELSE Store(heap, Handle("mut", 0, Len(heap)), Fields[i].OFFSET, r.bytes)
           /\ lastw' = IF r.panic THEN lastw
                       ELSE [lastw EXCEPT ![i] = Wrote(NoVal, src)]
           /\ last' = Last("api_copy_from_slice", 0, i,
                           [panic |-> r.panic, val |-> NoVal, bytes |-> src], NoHandle)
           /\ panicked' = r.panic
    /\ UNCHANGED <<decl, layout, owner, style, views, fvs, extracted, codec>>

\* The source slices a caller copies into a field of a storage of len bytes:
\* one of the field's length, one shorter, one longer.
Srcs(field, len) ==
    LET n == IF InBounds(field, len) THEN FieldEnd(field, len) - field.OFFSET
             ELSE field.type.n
    IN  {SrcOf(m) : m \in {n, n + 1} \cup (IF n > 0 THEN {n - 1} ELSE {})}

Next ==
    \/ \E v \in ViewIds, kind \in {"vec", "ref", "mut"} : ViewNew(v, kind)
    \/ \E v \in ViewIds : IntoStorage(v)
    \/ \E v \in ViewIds : DropView(v)
    \/ \E v \in ViewIds, i \in 1..NFields, k \in FvIds : FieldRef(v, i, k)
    \/ \E v \in ViewIds, i \in 1..NFields, k \in FvIds : FieldMut(v, i, k)
    \/ \E v \in ViewIds, i \in 1..NFields, k \in FvIds : IntoField(v, i, k)
    \/ \E k \in FvIds : FvRead(k)
    \/ \E k \in FvIds : FvData(k)
    \/ \E k \in FvIds : LiveFv(k) /\ \E v \in WriteVals(FvField(k).type) : FvWrite(k, v)
    \/ \E k \in FvIds : LiveFv(k) /\ \E src \in Srcs(FvField(k), Len(FvBytes(k))) :
            FvCopyFromSlice(k, src)
    \/ \E k \in FvIds : FvExtract(k)
    \/ \E k \in FvIds : FvDrop(k)
    \/ DropExtracted
    \/ \E i \in 1..NFields : ApiRead(i)
    \/ \E i \in 1..NFields : ApiData(i)
    \/ \E i \in 1..NFields : \E v \in WriteVals(Fields[i].type) : ApiWrite(i, v)
    \/ \E i \in 1..NFields : \E src \in Srcs(Fields[i], Len(heap)) : ApiCopyFromSlice(i, src)

Spec == Init /\ [][Next]_vars

-----------------------------------------------------------------------------
(* The definition stage on its own: every declaration of up to MaxFields   *)
(* fields, and the tests' declarations, through define_layout!.            *)

FieldNames == <<"first", "second", "third", "fourth", "fifth", "sixth">>
Names == {FieldNames[i] : i \in 1..MaxFields}

DeclTypes == {i8, u16, i64} \cup {FixedT(n) : n \in 1..MaxFixed} \cup {OpenT}

\* withslice as the tests declare it
WithSlice ==
    Decl("LittleEndian", <<F("first", i8), F("second", i64), F("third", FixedT(5)),
                           F("fourth", u16), F("fifth", OpenT)>>)

NoDecl == Decl("none", <<>>)
Declared == decl.endianness # "none"

InitLayout ==
    /\ decl = NoDecl
    /\ layout = Undefined
    /\ style = "view"
    /\ heap = data_region(MaxTail, StorageSeed)
    /\ owner = "caller"
    /\ views = [v \in ViewIds |-> NoView]
    /\ fvs = [k \in FvIds |-> NoFv]
    /\ extracted = NoExtract
    /\ lastw = <<>>
    /\ last = NoLast
    /\ panicked = FALSE
    /\ codec = NoCodec

\* The programmer writes one more `name: type` into the declaration.
DeclareField(name, type) ==
    /\ ~Declared /\ Len(decl.fields) < MaxFields
    /\ decl' = [decl EXCEPT !.fields = Append(decl.fields, F(name, type))]
    /\ UNCHANGED <<layout, heap, owner, style, views, fvs, extracted, lastw, last,
                   panicked, codec>>

\* The programmer writes the fields of one of the tests' declarations.
DeclareTest(d) ==
    /\ ~Declared /\ decl.fields = <<>>
    /\ decl' = [decl EXCEPT !.fields = d.fields]
    /\ UNCHANGED <<layout, heap, owner, style, views, fvs, extracted, lastw, last,
                   panicked, codec>>

\* define_layout!(name, endianness, { fields })
Define(endianness) ==
    /\ ~Declared
    /\ decl' = [decl EXCEPT !.endianness = endianness]
    /\ layout' = define_layout(endianness, decl.fields)
    /\ lastw' = [i \in 1..Len(layout'.fields) |-> NoWrite]
    /\ UNCHANGED <<heap, owner, style, views, fvs, extracted, last, panicked, codec>>

NextLayout ==
    \/ \E name \in Names, type \in DeclTypes : DeclareField(name, type)
    \/ \E d \in TestLayouts \cup {WithSlice} : DeclareTest(d)
    \/ \E endianness \in Endianness : Define(endianness)

SpecLayout == InitLayout /\ [][NextLayout]_vars

-----------------------------------------------------------------------------
(* The codecs on their own: one value of one integer type through encode   *)
(* and decode in one byte order.                                           *)

\* Values of the types wider than 16 bits: around the powers of 256 and the
\* ends of the type, as far as TLC's integers reach.
WideSamples ==
    {0, 1, 50, 127, 128, 255, 256, 1000, 32767, 32768, 65535, 65536, 16777215,
     16777216, 1000000000, 2147483646, 2147483647,
     -1, -128, -129, -256, -32768, -32769, -65536, -16777216, -16777217,
     -1000000000, -2147483647, -2147483647 - 1}

CodecVals(type) ==
    IF type.n <= 2 THEN TypeMin(type)..TypeMax(type)
    ELSE {v \in WideSamples : type.s \/ v >= 0}

InitCodec ==
    /\ decl = NoDecl
    /\ layout = Undefined
    /\ style = "view"
    /\ heap = <<>>
    /\ owner = "caller"
    /\ views = [v \in ViewIds |-> NoView]
    /\ fvs = [k \in FvIds |-> NoFv]
    /\ extracted = NoExtract
    /\ lastw = <<>>
    /\ last = NoLast
    /\ panicked = FALSE
    /\ \E t \in IntTypes, e \in Endianness : \E v \in CodecVals(t) :
          codec = [pc |-> "in", type |-> t, endianness |-> e, v |-> v,
                   bytes |-> <<>>, out |-> NoVal]

CodecEncode ==
    /\ codec.pc = "in"
    /\ codec' = [codec EXCEPT !.pc = "encoded",
                              !.bytes = encode(codec.v, codec.type, codec.endianness)]
    /\ UNCHANGED <<decl, layout, heap, owner, style, views, fvs, extracted, lastw, last,
                   panicked>>

CodecDecode ==
    /\ codec.pc = "encoded"
    /\ codec' = [codec EXCEPT !.pc = "decoded",
                              !.out = decode(codec.bytes, codec.type, codec.endianness)]
    /\ UNCHANGED <<decl, layout, heap, owner, style, views, fvs, extracted, lastw, last,
                   panicked>>

NextCodec == CodecEncode \/ CodecDecode

SpecCodec == InitCodec /\ [][NextCodec]_vars

-----------------------------------------------------------------------------
(* Properties.                                                             *)

\* The sizes of the first n fields of a declaration, summed.
RECURSIVE SumSizes(_, _)
SumSizes(fields, n) ==
    IF n = 0 THEN 0 ELSE SumSizes(fields, n - 1) + fields[n].type.n

OffsetsOf(items) == [i \in 1..Len(items) |-> items[i].OFFSET]

\* C1: in every layout define_layout! accepts, each field's OFFSET is the sum
\* of the SIZEs of the fields declared before it, the first field's being 0;
\* withslice {i8, i64, [u8; 5], u16, [u8]} gets 0, 1, 9, 14, 16.
C1_OffsetsArePrefixSums ==
    layout.ok =>
        /\ Len(layout.fields) = Len(decl.fields)
        /\ \A i \in 1..Len(layout.fields) :
              /\ layout.fields[i].name = decl.fields[i].name
              /\ layout.fields[i].OFFSET = SumSizes(decl.fields, i - 1)
        /\ layout.fields # <<>> => layout.fields[1].OFFSET = 0
        /\ decl.fields = WithSlice.fields => OffsetsOf(layout.fields) = <<0, 1, 9, 14, 16>>

C1_Witness ==
    /\ layout.ok
    /\ decl = WithSlice
    /\ Len(layout.fields) = 5
    /\ OffsetsOf(layout.fields) = <<0, 1, 9, 14, 16>>

\* C4: decoding the bytes encode produced for v, in the same byte order and
\* at the same type, gives v back, negative values of signed types included.
C4_RoundTrip ==
    codec.pc = "decoded" => codec.out = IntVal(codec.v)

C4_Witness ==
    /\ codec.pc = "decoded"
    /\ codec.type = i64 /\ codec.endianness = "BigEndian"
    /\ codec.v = -1000000000
    /\ codec.bytes = <<255, 255, 255, 255, 196, 101, 54, 0>>
    /\ codec.out = IntVal(-1000000000)

NameRepeats(fields) ==
    \E i, j \in 1..Len(fields) : i # j /\ fields[i].name = fields[j].name
OpenNotLast(fields) ==
    \E i \in 1..Len(fields) : i < Len(fields) /\ fields[i].type.k = "open"

\* C9: a declaration in which a field name repeats, or a [u8] field is not
\* the last, is rejected whole (no field of it is defined) and no step of the
\* caller is possible with it, so no storage is touched; in every accepted
\* layout only the last field has no fixed size.
C9_DefinitionErrors ==
    Declared =>
        /\ (NameRepeats(decl.fields) \/ OpenNotLast(decl.fields)) =>
              /\ ~layout.ok
              /\ layout.fields = <<>>
              /\ ~ENABLED Next
              /\ heap = data_region(MaxTail, StorageSeed)
        /\ layout.ok =>
              \A i \in 1..Len(layout.fields) :
                  layout.fields[i].type.k = "open" => i = Len(layout.fields)

C9_Witness ==
    /\ decl = Decl("BigEndian", <<F("first", OpenT), F("second", u16)>>)
    /\ ~layout.ok
    /\ layout.fields = <<>>
    /\ ~ENABLED Next

\* What the caller last wrote to field i reads back from storage bytes.
ReadsBack(i, bytes) ==
    IF lastw[i].val.wide
    THEN Field_data(Fields[i], bytes) = Ok(NoVal, lastw[i].bytes)
    ELSE Field_read(Fields[i], bytes) = Ok(lastw[i].val, <<>>)

\* The bytes of field i in the buffer as data_region filled it.
Original(i) ==
    SubSeq(data_region(Len(heap), StorageSeed), Fields[i].OFFSET + 1,
           FieldEnd(Fields[i], Len(heap)))

\* C2: a read through a field view (the read-only accessor's included) of a
\* field last written through a mutable accessor's write(v) returns v.
C2_WriteThenRead ==
    (last.op = "read" /\ lastw[last.field].set
        /\ ~lastw[last.field].val.wide)
        => ~last.panic /\ last.val = lastw[last.field].val

\* The write went through a mutable view that is gone; the read goes through
\* the read-only accessor of a view made over &storage afterwards.
C2_Witness ==
    /\ last.op = "read" /\ ~last.panic
    /\ fvs[last.id].storage.kind = "ref"
    /\ fvs[last.id].parent = 2
    /\ views[2].st = "live" /\ views[2].given.kind = "ref"
    /\ views[1].st = "consumed" /\ views[1].given.kind = "mut"
    /\ Fields[last.field].type = i64
    /\ lastw[last.field] = Wrote(IntVal(TypeMin(i64)), <<>>)
    /\ last.val = IntVal(TypeMin(i64))

\* The j-th byte (0 the least significant) of the two's complement of v, for v
\* within 32 bits: above them the bytes repeat the sign.
StdByte(v, j) ==
    IF j = 0 THEN v % 256
    ELSE IF j = 1 THEN (v \div 256) % 256
    ELSE IF j = 2 THEN (v \div 65536) % 256
    ELSE IF j = 3 THEN (v \div 16777216) % 256
    ELSE IF v < 0 THEN 255 ELSE 0
big_endian_bytes(v, n) == [i \in 1..n |-> StdByte(v, n - i)]
little_endian_bytes(v, n) == [i \in 1..n |-> StdByte(v, i - 1)]

\* C3: after write(v) to an integer field of a layout declared with byte order
\* E, the storage bytes [OFFSET, OFFSET + SIZE) are the E-endian two's
\* complement of v at the field's width; 1000 in a u16 at offset 0 is 3, 232
\* big-endian and 232, 3 little-endian.
C3_BytesInDeclaredOrder ==
    (last.op \in {"write", "api_write"} /\ ~last.panic) =>
        LET f == Fields[last.field]
            bytes == SubSeq(heap, f.OFFSET + 1, f.OFFSET + f.type.n)
        IN  /\ Len(heap) >= f.OFFSET + f.type.n
            /\ decl.endianness = "BigEndian" =>
                   bytes = big_endian_bytes(last.val.v, f.type.n)
            /\ decl.endianness = "LittleEndian" =>
                   bytes = little_endian_bytes(last.val.v, f.type.n)
            /\ (f.type = u16 /\ f.OFFSET = 0 /\ last.val.v = 1000) =>
                   SubSeq(heap, 1, 2) =
                       (IF decl.endianness = "BigEndian" THEN <<3, 232>> ELSE <<232, 3>>)

C3_Witness ==
    /\ last.op = "write" /\ ~last.panic
    /\ decl.endianness = "BigEndian"
    /\ Fields[last.field].type = u16 /\ last.val = IntVal(1000)
    /\ SubSeq(heap, 1, 2) = <<3, 232>>

\* C5: into_storage returns the storage View::new was given, and its bytes are
\* the original ones except where a field was written, where they are what was
\* last written; with no write they are the bytes passed to new.
C5_IntoStorage ==
    last.op = "into_storage" =>
        LET bytes == Deref(heap, last.ret)
        IN  /\ last.ret = views[last.id].given
            /\ last.ret.kind \in {"vec", "ref", "mut"}
            /\ Len(bytes) = Len(heap)
            /\ \A i \in 1..NFields : InBounds(Fields[i], Len(bytes)) =>
                  IF lastw[i].set THEN ReadsBack(i, bytes)
                  ELSE Field_data(Fields[i], bytes) = Ok(NoVal, Original(i))
            /\ (\A i \in 1..NFields : ~lastw[i].set) =>
                  bytes = data_region(Len(heap), StorageSeed)

C5_Witness ==
    /\ last.op = "into_storage"
    /\ last.ret = Handle("vec", 0, Len(heap))
    /\ NFields = 3
    /\ \E i \in 1..NFields : lastw[i].set
    /\ Deref(heap, last.ret) # data_region(Len(heap), StorageSeed)

\* C6: the slice into_<field>().extract() returned is, the view being gone,
\* the field's byte range of the storage: the original bytes, or what was last
\* written to the field; for {field: u8, tail: [u8]} it is storage[1..].
C6_ExtractOutlivesView ==
    extracted # NoExtract =>
        LET i == extracted.name
            bytes == Deref(heap, extracted)
        IN  /\ extracted.kind \in {"ref", "mut"}
            /\ \A v \in ViewIds : views[v].st = "live" => views[v].given.kind = "ref"
            /\ extracted.ptr = Fields[i].OFFSET
            /\ extracted.len = FieldEnd(Fields[i], Len(heap)) - Fields[i].OFFSET
            /\ IF ~lastw[i].set THEN bytes = Original(i)
               ELSE IF lastw[i].val.wide THEN bytes = lastw[i].bytes
               ELSE decode(bytes, Fields[i].type, decl.endianness) = lastw[i].val
            /\ (Len(Fields) = 2 /\ Fields[1].type = u8 /\ i = 2 /\ ~lastw[2].set) =>
                  bytes = SubSeq(data_region(Len(heap), StorageSeed), 2, Len(heap))

C6_Witness ==
    /\ extracted # NoExtract /\ extracted.kind = "mut"
    /\ Len(Fields) = 2 /\ Fields[1].type = u8 /\ IsOpen(Fields[2])
    /\ extracted.name = 2 /\ extracted.len = 1 /\ Len(heap) = 2
    /\ \A v \in ViewIds : views[v].st # "live"
    /\ \A k \in FvIds : fvs[k].st # "live"
    /\ Deref(heap, extracted) = SubSeq(data_region(2, StorageSeed), 2, 2)

\* C7: data() of the open-ended field is storage.len() - OFFSET bytes long
\* (none when the two are equal) and data_mut() takes just as many, whenever
\* storage.len() >= OFFSET; below that both fail with a bounds error.
C7_OpenFieldLength ==
    (last.op \in {"data", "api_data", "copy_from_slice", "api_copy_from_slice"}
        /\ IsOpen(Fields[last.field])) =>
        LET off == Fields[last.field].OFFSET
        IN  IF Len(heap) < off THEN last.panic /\ panicked
            ELSE IF last.op \in {"data", "api_data"}
            THEN ~last.panic /\ Len(last.bytes) = Len(heap) - off
            ELSE last.panic <=> Len(last.bytes) # Len(heap) - off

C7_Witness ==
    /\ last.op = "data" /\ ~last.panic
    /\ IsOpen(Fields[last.field]) /\ Fields[last.field].OFFSET = 7
    /\ Len(heap) = 8 /\ Len(last.bytes) = 1

C7_WitnessShort ==
    /\ last.op = "data" /\ last.panic
    /\ IsOpen(Fields[last.field]) /\ Len(heap) < Fields[last.field].OFFSET

TooShort(i) == ~IsOpen(Fields[i]) /\ Len(heap) < Fields[i].OFFSET + Fields[i].type.n

AccessOps ==
    {"read", "write", "data", "copy_from_slice",
     "api_read", "api_write", "api_data", "api_copy_from_slice"}

C8_Surfaced ==
    (last.op \in AccessOps /\ TooShort(last.field)) =>
        /\ last.panic /\ panicked
        /\ last.op \in {"read", "api_read"} => last.val = NoVal
        /\ last.op \in {"data", "api_data"} => last.bytes = <<>>

\* C8: read, write, data and data_mut of a fixed-size field on a storage
\* shorter than OFFSET + SIZE fail with a bounds error that reaches the caller:
\* no value and no bytes come back, and the step that fails leaves every byte
\* of the storage as it was.
C8_BoundsError ==
    /\ []C8_Surfaced
    /\ [][panicked' => heap' = heap]_vars

C8_Witness ==
    /\ last.op = "write" /\ last.panic /\ panicked
    /\ TooShort(last.field)
    /\ last.field = 2 /\ Len(heap) >= Fields[1].OFFSET + Fields[1].type.n
    /\ heap = data_region(Len(heap), StorageSeed)

MutFv(k) == LiveFv(k) /\ fvs[k].storage.kind = "mut"
MutView(v) == LiveView(v) /\ views[v].storage.kind = "mut"

C10_Sole ==
    /\ \A k \in FvIds : MutFv(k) =>
          /\ \A j \in FvIds : LiveFv(j) => j = k
          /\ \A v \in ViewIds : LiveView(v) => v = fvs[k].parent
          /\ extracted = NoExtract
    /\ \A v \in ViewIds : MutView(v) =>
          /\ \A u \in ViewIds : LiveView(u) => u = v
          /\ \A k \in FvIds : LiveFv(k) => fvs[k].parent = v
          /\ extracted = NoExtract

\* C10: while a mutable field view is alive it is the only field view of the
\* storage, no view but its own is alive, no extracted slice is, and every
\* step is a use of it or its end; a view over &mut storage is the only view.
C10_MutableIsExclusive ==
    /\ []C10_Sole
    /\ [][\A k \in FvIds : MutFv(k) =>
            \/ fvs'[k].st = "consumed"
            \/ /\ last'.id = k
               /\ last'.op \in {"read", "write", "data", "copy_from_slice"}]_vars

C10_Witness ==
    /\ \E k \in FvIds : MutFv(k) /\ fvs[k].parent = 1 /\ k = 2
    /\ fvs[1].st = "consumed"
    /\ views[1].given.kind = "vec"
    /\ last.op = "write" /\ last.id = 2

\* A view over &storage.
ReadOnlyView(v) == LiveView(v) /\ views[v].given.kind = "ref"

\* The value field i holds by the caller's record: what was last written to
\* it, or what data_region put there.
Expected(i) ==
    IF lastw[i].set THEN lastw[i].val
    ELSE decode(Original(i), Fields[i].type, decl.endianness)

C11_Reads ==
    /\ \A v \in ViewIds : ReadOnlyView(v) =>
          /\ heap = IF \E i \in 1..NFields : lastw[i].set THEN heap
                    ELSE data_region(Len(heap), StorageSeed)
          /\ \A u \in ViewIds : LiveView(u) => ReadOnlyView(u)
          /\ \A u \in ViewIds : (Running /\ FreeView(u)) => ENABLED ViewNew(u, "ref")
          /\ \A k \in FvIds, i \in 1..NFields :
                (Running /\ FreeFv(k)) => ENABLED FieldRef(v, i, k)
    /\ (last.op = "read" /\ LiveFv(last.id) /\ fvs[last.id].parent # 0
           /\ ReadOnlyView(fvs[last.id].parent) /\ ~last.panic
           /\ ~Expected(last.field).wide)
          => last.val = Expected(last.field)

\* C11: while a view over &storage is alive, another one can always be made
\* and every one of them can hand out field views; each read through them
\* returns the value the storage bytes hold (the last written before the views
\* were made, or the original), whichever view reads in whichever order; and
\* no step taken while such a view is alive changes a byte of the storage.
C11_ReadOnlyViewsCoexist ==
    /\ []C11_Reads
    /\ [][(\E v \in ViewIds : ReadOnlyView(v)) => heap' = heap]_vars

\* Two views over &storage, a field view of each, the second has read and now
\* the first reads.
C11_Witness ==
    /\ ReadOnlyView(1) /\ ReadOnlyView(2)
    /\ LiveFv(1) /\ fvs[1].parent = 1
    /\ LiveFv(2) /\ fvs[2].parent = 2
    /\ last.op = "read" /\ last.id = 1 /\ ~last.panic
    /\ last.val = Expected(last.field)

\* The steps a slot of a view or field view may take: not yet made, in use,
\* consumed, in this order, and a consumed one never changes again.
Lifecycle(old, new) ==
    /\ old.st = "none" => new.st \in {"none", "live"}
    /\ old.st = "live" => new.st \in {"live", "consumed"}
    /\ old.st = "consumed" => new = old

FvUses == {"read", "write", "data", "copy_from_slice"}

C12_States ==
    /\ \A v \in ViewIds : views[v].st # "live" => views[v].storage = NoHandle
    /\ \A k \in FvIds :
          /\ fvs[k].st # "live" => fvs[k].storage = NoHandle
          /\ (fvs[k].st = "live" /\ fvs[k].parent # 0) => views[fvs[k].parent].st = "live"

C12_Steps ==
    /\ \A v \in ViewIds : Lifecycle(views[v], views'[v])
    /\ \A k \in FvIds : Lifecycle(fvs[k], fvs'[k])
    /\ last'.op = "into_storage" =>
          views[last'.id].st = "live" /\ views'[last'.id].st = "consumed"
    /\ last'.op \in FvUses =>
          fvs[last'.id].st = "live" /\ fvs'[last'.id].st = "live"
    /\ last'.op = "extract" =>
          fvs[last'.id].st = "live" /\ fvs'[last'.id].st = "consumed"
    /\ \A k \in FvIds : (fvs[k].st = "none" /\ fvs'[k].st = "live") =>
          IF fvs'[k].parent # 0
          THEN views[fvs'[k].parent].st = "live" /\ views'[fvs'[k].parent].st = "live"
          ELSE \E v \in ViewIds : views[v].st = "live" /\ views'[v].st = "consumed"

\* C12: a view and a field view are made once, used any number of times while
\* in use, and consumed once (into_storage, into_<field>, extract, or going out
\* of scope); a consumed one holds no storage and never changes again, and
\* every read, write, data access, extract, accessor call and into_storage
\* acts on one that is in use.
C12_Lifecycle ==
    /\ []C12_States
    /\ [][C12_Steps]_vars

\* A view over the Vec that was written through one field view, read through
\* another, and consumed by into_storage.
C12_Witness ==
    /\ views[1].st = "consumed" /\ views[1].given.kind = "vec"
    /\ fvs[1].st = "consumed" /\ fvs[2].st = "consumed"
    /\ \E i \in 1..NFields : lastw[i].set
    /\ last.op = "into_storage" /\ last.id = 1
    /\ owner = "caller"

\* A view is in one of three states, and holds the storage it was given
\* exactly while in use.
ViewValid(v) ==
    /\ views[v].st \in {"none", "live", "consumed"}
    /\ views[v].st = "live" =>
          /\ views[v].storage = views[v].given
          /\ views[v].storage.kind \in {"vec", "ref", "mut"}
          /\ views[v].storage.ptr = 0 /\ views[v].storage.len = Len(heap)
    /\ views[v].st # "live" => views[v].storage = NoHandle

\* What the access mode and the borrows alive allow on a view in use can be
\* done, whatever the storage's length.
C13_Total ==
    /\ \A v \in ViewIds : ViewValid(v)
    /\ \A v \in ViewIds : (Running /\ LiveView(v)) =>
          /\ CanMove(v) => ENABLED IntoStorage(v)
          /\ \A i \in 1..NFields, k \in FvIds : FreeFv(k) =>
                /\ CanBorrowShared(v) => ENABLED FieldRef(v, i, k)
                /\ (ImplAsMut(views[v].storage) /\ CanBorrowMut(v)) =>
                      ENABLED FieldMut(v, i, k)
                /\ CanMove(v) => ENABLED IntoField(v, i, k)

\* A step of a view: it is made or consumed, or hands out a field view.
ViewStep ==
    \/ views' # views
    \/ \E k \in FvIds : fvs[k].st = "none" /\ fvs'[k].st = "live"
    \/ last'.op = "into_storage"

\* C13: a view is only ever not made, in use or consumed, never anything in
\* between; on a view in use every accessor and into_storage its access mode
\* and the live borrows allow can be taken, on a storage of any length; such a
\* step completes without a panic, changes no byte, and leaves every view in
\* use or consumed; the only steps that fail are accesses of a field's bytes.
C13_NoInvalidState ==
    /\ []C13_Total
    /\ [][panicked' => last'.op \in AccessOps \cup {"extract"}]_vars
    /\ [][ViewStep =>
            /\ ~panicked' /\ heap' = heap
            /\ \A v \in ViewIds : views[v].st = "live" =>
                  views'[v].st \in {"live", "consumed"}
            /\ \A k \in FvIds : (fvs[k].st = "none" /\ fvs'[k].st = "live") =>
                  /\ fvs'[k].storage.kind \in {"vec", "ref", "mut"}
                  /\ fvs'[k].field = fvs'[k].name]_vars

\* A mutable accessor taken on a view whose storage is too short for the
\* field: the field view is there and nothing has failed.
C13_Witness ==
    /\ ~panicked
    /\ LiveView(1) /\ views[1].given.kind = "mut"
    /\ LiveFv(1) /\ fvs[1].parent = 1 /\ fvs[1].storage.kind = "mut"
    /\ TooShort(fvs[1].name)

CopyOps == {"copy_from_slice", "api_copy_from_slice"}

IsFixed(field) == field.type.k = "fixed"

\* storage with src in field's range and every other byte as it was
Replaced(storage, field, src) ==
    [j \in 1..Len(storage) |->
        IF j > field.OFFSET /\ j <= field.OFFSET + field.type.n
        THEN src[j - field.OFFSET] ELSE storage[j]]

\* C14: data_mut().copy_from_slice(src) on a [u8; N] field that fits the
\* storage fails when src is shorter or longer than N, and then the storage is
\* byte for byte what it was (nothing cut, nothing padded); with src of exactly
\* N bytes it succeeds and the storage is what it was with src in the field's
\* range.
C14_ExactLengthCopy ==
    /\ [](last.op \in CopyOps /\ IsFixed(Fields[last.field])
            /\ InBounds(Fields[last.field], Len(heap))
          => (last.panic <=> Len(last.bytes) # Fields[last.field].type.n)
             /\ (last.panic <=> panicked)
             /\ (~last.panic =>
                   Field_data(Fields[last.field], heap) = Ok(NoVal, last.bytes)))
    /\ [][(last'.op \in CopyOps /\ IsFixed(Fields[last'.field])
             /\ InBounds(Fields[last'.field], Len(heap)))
          => heap' = IF Len(last'.bytes) # Fields[last'.field].type.n THEN heap
                     ELSE Replaced(heap, Fields[last'.field], last'.bytes)]_vars

\* A source of six bytes for the five-byte field: the copy failed and the
\* storage holds what data_region put there.
C14_Witness ==
    /\ last.op = "copy_from_slice" /\ last.panic /\ panicked
    /\ Fields[last.field].type = FixedT(5)
    /\ Len(last.bytes) = 6
    /\ Len(heap) = 8
    /\ heap = data_region(8, StorageSeed)

WriteOps == {"write", "api_write", "copy_from_slice", "api_copy_from_slice"}

\* Byte j (from 1) of a storage of len bytes lies in field's range.
InRange(field, len, j) == j > field.OFFSET /\ j <= FieldEnd(field, len)

C15_EachReadsBack ==
    \A i \in 1..NFields : InBounds(Fields[i], Len(heap)) =>
        IF lastw[i].set
        THEN IF IsInt(Fields[i]) /\ ~lastw[i].val.wide
             THEN Field_read(Fields[i], heap) = Ok(lastw[i].val, <<>>)
             ELSE Field_data(Fields[i], heap) = Ok(NoVal, lastw[i].bytes)
        ELSE Field_data(Fields[i], heap) = Ok(NoVal, Original(i))

\* C15: a step changes bytes of the storage only if it is a write or a
\* data_mut copy, and then only bytes within the written field's range
\* [OFFSET, OFFSET + SIZE), or [OFFSET, len) for the open field; the storage
\* keeps its length; so in every state each field holds the value last written
\* to it, or its original bytes if none was.
C15_Frame ==
    /\ []C15_EachReadsBack
    /\ [][/\ Len(heap') = Len(heap)
          /\ \A j \in 1..Len(heap) : heap'[j] # heap[j] =>
                /\ last'.op \in WriteOps /\ ~last'.panic
                /\ InRange(Fields[last'.field], Len(heap), j)]_vars

\* Both fields of my_layout written through mutable field views, the second
\* after the first.
C15_Witness ==
    /\ style = "view" /\ NFields = 2 /\ Fields[2].type = i64
    /\ lastw[1].set /\ lastw[2].set
    /\ last.op = "write" /\ last.field = 2 /\ ~last.panic
    /\ Field_read(Fields[1], heap) = Ok(lastw[1].val, <<>>)
    /\ Field_read(Fields[2], heap) = Ok(lastw[2].val, <<>>)
    /\ lastw[1].val = IntVal(1000)

\* What an operation returned.
Returned == [panic |-> last.panic, val |-> last.val, bytes |-> last.bytes]

\* The storage after name::write(&mut storage, v) and after
\* name::data_mut(&mut storage).copy_from_slice(src).
AfterFieldWrite(storage, field, v) ==
    LET r == Field_write(field, storage, v)
    IN  IF r.panic THEN storage
        ELSE Store(storage, Handle("mut", 0, Len(storage)), field.OFFSET, r.bytes)
AfterFieldCopy(storage, field, src) ==
    LET r == Field_copy_from_slice(field, storage, src)
    IN  IF r.panic THEN storage
        ELSE Store(storage, Handle("mut", 0, Len(storage)), field.OFFSET, r.bytes)

C16_SameResult ==
    /\ last.op \in {"read", "api_read"} =>
          Returned = Field_read(Fields[last.field], heap)
    /\ last.op \in {"data", "api_data"} =>
          Returned = Field_data(Fields[last.field], heap)

\* C16: what read() and data() of a field view return, the view being over the
\* Vec, &storage or &mut storage, is what the field's read and data return on
\* the storage itself, failures included; and the storage after write(v) or a
\* data_mut copy through a field view is the storage after the field's write
\* or copy on the storage itself.
C16_FieldAndViewAgree ==
    /\ []C16_SameResult
    /\ [][/\ last'.op \in {"write", "api_write"} =>
                /\ heap' = AfterFieldWrite(heap, Fields[last'.field], last'.val.v)
                /\ last'.panic = Field_write(Fields[last'.field], heap, last'.val.v).panic
          /\ last'.op \in CopyOps =>
                /\ heap' = AfterFieldCopy(heap, Fields[last'.field], last'.bytes)
                /\ last'.panic =
                      Field_copy_from_slice(Fields[last'.field], heap, last'.bytes).panic]_vars

\* A read through a field view of a view that owns the Vec, of a field written
\* before: it returns what the field's read returns on the storage.
C16_Witness ==
    /\ style = "view" /\ last.op = "read" /\ ~last.panic
    /\ LiveFv(last.id) /\ fvs[last.id].parent # 0
    /\ views[fvs[last.id].parent].given.kind = "vec"
    /\ lastw[last.field].set /\ last.field = 2
    /\ Field_read(Fields[2], heap) = Ok(last.val, <<>>)

====
